---- MODULE Spec2Model ----
(***************************************************************************)
(* The timer board of tcg-timer (src/src/App.tsx, with the configurable    *)
(* tick rate of the revision in src/unnamed/part_000): the timer           *)
(* collection, the periodic tick, the per-card controls, the milestone     *)
(* detector effect with its lastSeen map, and the load normalisation.      *)
(*                                                                         *)
(* Units.  durationSec and remainingSec are JavaScript numbers of seconds  *)
(* that become fractional under sub-second tick rates; the model holds     *)
(* them as integers in MILLISECONDS.  announceAt entries and lastSeen      *)
(* values are whole seconds, as Math.ceil leaves them in the code.         *)
(*                                                                         *)
(* React.  A state update is first queued (timers), then rendered (view:   *)
(* the props that click handlers close over), then the passive effect      *)
(* (the detector) runs on the rendered collection.  An interval tick goes  *)
(* through these three steps one by one; a click is a discrete event,      *)
(* which React completes synchronously: handler, any passive effect still  *)
(* pending, render, effect.                                                *)
(***************************************************************************)
EXTENDS Integers, Sequences, FiniteSets, TLC

VARIABLES
    timers,       \* useState<GameTimer[]>: the collection, all queued updates applied
    view,         \* the last rendered [timers, displayMode]: what handlers and effects close over
    phase,        \* "idle" | "update" (a tick is queued, not rendered) | "effect" (rendered, detector pending)
    displayMode,  \* useState(false): the minimal display wall
    lastSeen,     \* useRef<Record<string, number>>: id -> last ceil(remainingSec) seen, or Sentinel
    notes,        \* the notifications emitted by the step just taken
    tickRateMs,   \* the interval of the ticking effect
    nextId,       \* the ids crypto.randomUUID() has handed out so far, plus one
    tickedOut,    \* history: ids a tick brought to zero while Running, not reset since
    announced,    \* history: ids that got a Finished notification, not reset since
    tickFrom,     \* history: the collection the last tick was applied to (empty after a click)
    held,         \* history: <<id, t>> such that Threshold(t) was emitted for id and
                  \*          ceil(remainingSec) has been t ever since
    raw,          \* localStorage "tcg_timers" as read at start-up (load specification)
    loaded,       \* the outcome of the load initialiser (load specification)
    assets,       \* useAudioAssets: the kinds ("five", "two", "time") with a clip configured
    speechEnabled,\* useState(true): the "Voice" checkbox
    delivered,    \* what the step just taken did for each notification: clip, phrases, overlay
    language,     \* useState('en'): the announcement language
    queue,        \* useSpeech: queue.current, the phrases waiting
    speaking,     \* useSpeech: speaking.current, the gate of the dispatcher
    uttering,     \* the utterances handed to speechSynthesis.speak that have not ended
    request,      \* history: the last direct call of updateTimer or removeTimer, with the
                  \*          collection it was applied to (store specification)
    totalSeconds, \* formatHHMMSS: the argument, in milliseconds (formatter specification)
    formatted,    \* formatHHMMSS: the string returned (formatter specification)
    playback,     \* for each delivery of the step just taken: what became of the promise of
                  \*   a.play(), "started" or "rejected" ("none" when play was not reached)
    overlay,      \* useState<string | null>(null): the milestone overlay (overlay specification)
    timeouts,     \* the setTimeout callbacks of the announcement effect not yet run
    now           \* the time in milliseconds (overlay specification)

vars == <<timers, view, phase, displayMode, lastSeen, notes, tickRateMs, nextId,
          tickedOut, announced, tickFrom, held, raw, loaded,
          assets, speechEnabled, delivered, language, queue, speaking, uttering, request,
          totalSeconds, formatted, playback, overlay, timeouts, now>>

loadVars == <<raw, loaded>>
configVars == <<assets, speechEnabled, language>>
speechVars == <<queue, speaking, uttering>>
formatVars == <<totalSeconds, formatted>>
overlayVars == <<overlay, timeouts, now>>

----------------------------------------------------------------------------
\* Bounds of the model
MaxAdds == 1          \* timers added in one session (ids are never reused)

\* Program constants
MsPerSec == 1000      \* tickRateMs / 1000
MinuteSec == 60       \* minutes * 60
Sentinel == -1        \* lastSeen value meaning "Finished already announced"
DefaultTickRateMs == 1000
MinTickRateMs == 250
FallbackDurationSec == 3000
MinLegacyDurationSec == 60

DefaultAnnounceAt == <<300, 120>>

Max(a, b) == IF a >= b THEN a ELSE b
Min(a, b) == IF a <= b THEN a ELSE b

\* Math.ceil of a number of seconds held in milliseconds
Ceil(ms) == -((-ms) \div MsPerSec)

\* Array.prototype.includes
Includes(arr, x) == \E k \in 1..Len(arr) : arr[k] = x

\* { ...x, ...patch }
Merge(x, patch) == [f \in DOMAIN x |-> IF f \in DOMAIN patch THEN patch[f] ELSE x[f]]

----------------------------------------------------------------------------
\* The ticking effect's updater: prev.map(...)
\* TickOne without the test of the status
TickOneAnyStatus(tm, deltaMs) ==
    LET next == Max(0, tm.remainingSec - deltaMs)
    IN  [tm EXCEPT !.remainingSec = next,
                   !.status = IF next <= 0 THEN "FINISHED" ELSE tm.status]

\* TickOne that leaves the status alone when the countdown reaches zero
TickOneNeverFinishes(tm, deltaMs) ==
    IF tm.status # "RUNNING" THEN tm
    ELSE [tm EXCEPT !.remainingSec = Max(0, tm.remainingSec - deltaMs)]

TickOne(tm, deltaMs) ==
    IF tm.status # "RUNNING" THEN tm
    ELSE LET next == Max(0, tm.remainingSec - deltaMs)
         IN  [tm EXCEPT !.remainingSec = next,
                        !.status = IF next <= 0 THEN "FINISHED" ELSE tm.status]

TickMap(ts, deltaMs) == [i \in 1..Len(ts) |-> TickOne(ts[i], deltaMs)]

\* updateTimer's updater: t.map((x) => (x.id === id ? { ...x, ...patch } : x))
UpdateMap(ts, id, patch) ==
    [i \in 1..Len(ts) |-> IF ts[i].id = id THEN Merge(ts[i], patch) ELSE ts[i]]

\* RemoveMap by position: splice(findIndex(...), 1), which drops the last timer when
\* the id is not found
RemoveMapSplice(ts, id) ==
    IF \A i \in 1..Len(ts) : ts[i].id # id
    THEN SubSeq(ts, 1, Len(ts) - 1)
    ELSE SelectSeq(ts, LAMBDA x : x.id # id)

\* removeTimer's updater: t.filter((x) => x.id !== id)
RemoveMap(ts, id) == SelectSeq(ts, LAMBDA x : x.id # id)

\* NewTimer starting the countdown at once
NewTimerRunning(id, minutes) ==
    [id |-> id, game |-> "game",
     durationSec |-> minutes * MinuteSec * MsPerSec,
     remainingSec |-> minutes * MinuteSec * MsPerSec,
     status |-> "RUNNING", announceAt |-> DefaultAnnounceAt, pinned |-> FALSE]

\* addTimer's new record
NewTimer(id, minutes) ==
    [id |-> id, game |-> "game", durationSec |-> minutes * MinuteSec * MsPerSec,
     remainingSec |-> minutes * MinuteSec * MsPerSec, status |-> "PAUSED",
     announceAt |-> DefaultAnnounceAt, pinned |-> FALSE]

----------------------------------------------------------------------------
\* The announcement effect: one pass of timers.forEach over a rendered collection
Put(ls, id, v) == [k \in DOMAIN ls \cup {id} |-> IF k = id THEN v ELSE ls[k]]
Drop(ls, id) == [k \in DOMAIN ls \ {id} |-> ls[k]]
SeenIs(ls, id, v) == id \in DOMAIN ls /\ ls[id] = v

\* DetectOne with the comparison against the last-seen value inverted
DetectOneInverted(tm, ls) ==
    IF tm.status = "FINISHED"
    THEN IF ~SeenIs(ls, tm.id, Sentinel)
         THEN [ls |-> Put(ls, tm.id, Sentinel),
               out |-> <<[kind |-> "Finished", id |-> tm.id, at |-> 0]>>]
         ELSE [ls |-> ls, out |-> <<>>]
    ELSE LET remaining == Ceil(tm.remainingSec)
         IN  [ls |-> Put(ls, tm.id, remaining),
              out |-> IF Includes(tm.announceAt, remaining) /\ SeenIs(ls, tm.id, remaining)
                      THEN <<[kind |-> "Threshold", id |-> tm.id, at |-> remaining]>>
                      ELSE <<>>]

\* DetectOne with a "crossed below" test: every threshold between the last-seen value
\* and the present one is announced
DetectOneCrossedBelow(tm, ls) ==
    IF tm.status = "FINISHED"
    THEN IF ~SeenIs(ls, tm.id, Sentinel)
         THEN [ls |-> Put(ls, tm.id, Sentinel),
               out |-> <<[kind |-> "Finished", id |-> tm.id, at |-> 0]>>]
         ELSE [ls |-> ls, out |-> <<>>]
    ELSE LET remaining == Ceil(tm.remainingSec)
             crossed == SelectSeq(tm.announceAt,
                                  LAMBDA t : /\ tm.id \in DOMAIN ls
                                             /\ ls[tm.id] > t
                                             /\ t >= remaining)
         IN  [ls |-> Put(ls, tm.id, remaining),
              out |-> [k \in 1..Len(crossed) |->
                          [kind |-> "Threshold", id |-> tm.id, at |-> crossed[k]]]]

DetectOne(tm, ls) ==
    IF tm.status = "FINISHED"
    THEN IF ~SeenIs(ls, tm.id, Sentinel)
         THEN [ls |-> Put(ls, tm.id, Sentinel),
               out |-> <<[kind |-> "Finished", id |-> tm.id, at |-> 0]>>]
         ELSE [ls |-> ls, out |-> <<>>]
    ELSE LET remaining == Ceil(tm.remainingSec)
         IN  [ls |-> Put(ls, tm.id, remaining),
              out |-> IF Includes(tm.announceAt, remaining) /\ ~SeenIs(ls, tm.id, remaining)
                      THEN <<[kind |-> "Threshold", id |-> tm.id, at |-> remaining]>>
                      ELSE <<>>]

RECURSIVE DetectFrom(_, _, _, _)
DetectFrom(ts, i, ls, out) ==
    IF i > Len(ts) THEN [ls |-> ls, out |-> out]
    ELSE LET r == DetectOne(ts[i], ls)
         IN  DetectFrom(ts, i + 1, r.ls, out \o r.out)

DetectPass(ts, ls) == DetectFrom(ts, 1, ls, <<>>)

----------------------------------------------------------------------------
\* Inputs of the controls (bounded sets of what the user can enter)
AddMinutes == {1}                      \* AdminPanel "Minutes" field
DurationInputs == {"abc", "1", "2"}    \* TimerCard "Minutes" field
ThresholdTexts == { <<"">>, <<"1">>, <<"abc", "-1">> }  \* "Announce at" field, split on commas
TickRateInputs == {"abc", "500"}       \* AdminPanel "Tick rate (ms)" field
MaxRemainingSec == 121                 \* +1 min is not pressed beyond this many seconds remaining

\* Number(text): the texts that are numbers (the others give NaN), and their values
IsNumber(tok) == tok \in {"", "0", "1", "2", "-1", "500"}
NumberOf(tok) ==
    CASE tok = "" -> 0
      [] tok = "0" -> 0
      [] tok = "1" -> 1
      [] tok = "2" -> 2
      [] tok = "-1" -> -1
      [] tok = "500" -> 500

\* The "Announce at" onChange: split, Number, filter(!isNaN(x) && x >= 0), map(m * 60)
ParseThresholds(text) ==
    LET kept == SelectSeq(text, LAMBDA x : IsNumber(x) /\ NumberOf(x) >= 0)
    IN  [k \in 1..Len(kept) |-> NumberOf(kept[k]) * MinuteSec]

\* The "Tick rate (ms)" onChange: Math.max(250, Number(e.target.value) || 1000)
ParseTickRate(v) ==
    Max(MinTickRateMs, IF ~IsNumber(v) \/ NumberOf(v) = 0 THEN DefaultTickRateMs ELSE NumberOf(v))

\* The "Minutes" onChange: Math.max(1, Number(e.target.value) || 1)
ParseMinutes(v) == IF ~IsNumber(v) \/ NumberOf(v) = 0 THEN 1 ELSE Max(1, NumberOf(v))

\* What the announcement effect does with a notification it emits, in a pass of a
\* render with display mode dm, configured clips as and speech enabled en:
\* audio.play(kind) returns true when a clip is configured for the kind, else the
\* phrase goes to announce -> speak, which queues it when speech is enabled; outside
\* display mode setOverlay is called.
ClipKind(n) ==
    IF n.kind = "Finished" THEN "time"
    ELSE IF n.at = 300 THEN "five"
    ELSE IF n.at = 120 THEN "two"
    ELSE "none"
\* DeliverOne that speaks whether or not a clip is played
DeliverOneAlwaysSpeaks(n, dm, as, en) ==
    [note |-> n, ctx |-> [dm |-> dm, assets |-> as, enabled |-> en],
     clip |-> ClipKind(n) \in as,
     phrases |-> IF en THEN <<n>> ELSE <<>>,
     overlay |-> ~dm]
\* DeliverOne that sets the overlay in display mode too
DeliverOneAlwaysOverlay(n, dm, as, en) ==
    [note |-> n, ctx |-> [dm |-> dm, assets |-> as, enabled |-> en],
     clip |-> ClipKind(n) \in as,
     phrases |-> IF ClipKind(n) \notin as /\ en THEN <<n>> ELSE <<>>,
     overlay |-> TRUE]
\* ctx records the render the pass belongs to
DeliverOne(n, dm, as, en) ==
    [note |-> n, ctx |-> [dm |-> dm, assets |-> as, enabled |-> en],
     clip |-> ClipKind(n) \in as,
     phrases |-> IF ClipKind(n) \notin as /\ en THEN <<n>> ELSE <<>>,
     overlay |-> ~dm]
DeliverPass(out, dm, as, en) == [k \in 1..Len(out) |-> DeliverOne(out[k], dm, as, en)]

\* a.play() returns a promise: the platform starts the clip or rejects the promise (no
\* user gesture yet, a source it cannot decode); the code attaches .catch(() => {})
PlaybackOutcomes(ds) ==
    {o \in [1..Len(ds) -> {"none", "started", "rejected"}] :
        \A k \in 1..Len(ds) : (o[k] = "none") <=> ~ds[k].clip}

FinishedIds(out) == {out[k].id : k \in {j \in 1..Len(out) : out[j].kind = "Finished"}}

\* History of the threshold notifications: the pairs emitted, kept while the timer's
\* ceil(remainingSec) stays on the threshold
Emitted(out) == {<<out[k].id, out[k].at>> : k \in {j \in 1..Len(out) : out[j].kind = "Threshold"}}
StillOn(ts, pairs) ==
    {p \in pairs : \E i \in 1..Len(ts) : ts[i].id = p[1] /\ Ceil(ts[i].remainingSec) = p[2]}

----------------------------------------------------------------------------
\* React completing a discrete event whose handler left the collection ts, the display
\* mode dm and the lastSeen map ls: the detector effect of the previous render runs first
\* if it is still pending, then the new state is rendered and its detector effect runs.
\* resetIds are the ids the handler reset.
Flush(ts, dm, ls, resetIds) ==
    LET p1 == IF phase = "effect" THEN DetectPass(view.timers, ls)
              ELSE [ls |-> ls, out |-> <<>>]
        p2 == DetectPass(ts, p1.ls)
    IN  /\ timers' = ts
        /\ displayMode' = dm
        /\ view' = [timers |-> ts, displayMode |-> dm]
        /\ phase' = "idle"
        /\ lastSeen' = p2.ls
        /\ notes' = p1.out \o p2.out
        /\ delivered' = DeliverPass(p1.out, view.displayMode, assets, speechEnabled)
                         \o DeliverPass(p2.out, dm, assets', speechEnabled')
        /\ tickedOut' = tickedOut \ resetIds
        /\ announced' = ((announced \cup FinishedIds(p1.out)) \ resetIds) \cup FinishedIds(p2.out)
        /\ tickFrom' = <<>>
        /\ held' = StillOn(ts, held \cup Emitted(p1.out) \cup Emitted(p2.out))
        /\ playback' \in PlaybackOutcomes(delivered')
        /\ UNCHANGED <<loadVars, speechVars, formatVars, overlayVars>>

\* The cards (and the admin panel) are rendered only outside the display wall; the wall
\* is rendered when displayMode is set and there is at least one timer to show
CardsShown == ~view.displayMode \/ Len(view.timers) = 0

\* A click on a control of the i-th rendered card: onUpdate(timer.id, patch), where
\* timer is the card's prop, that is, the record as last rendered
Control(i, patch, resetIds) ==
    /\ CardsShown
    /\ i \in 1..Len(view.timers)
    /\ UNCHANGED configVars
    /\ Flush(UpdateMap(timers, view.timers[i].id, patch), displayMode, lastSeen, resetIds)
    /\ UNCHANGED <<nextId, tickRateMs, request>>

----------------------------------------------------------------------------
\* The operations

(***************************************************************************)
(* Loading the persisted collection (usePersistentTimers initialiser).     *)
(* A JSON value read from a field of an entry is a tagged record; "undef"  *)
(* is what reading a missing field gives.                                  *)
(***************************************************************************)
Undef == [t |-> "undef", n |-> 0, s |-> "", b |-> FALSE, a |-> <<>>]
Null == [t |-> "null", n |-> 0, s |-> "", b |-> FALSE, a |-> <<>>]
Num(n) == [t |-> "num", n |-> n, s |-> "", b |-> FALSE, a |-> <<>>]
Str(str) == [t |-> "str", n |-> 0, s |-> str, b |-> FALSE, a |-> <<>>]
Bool(b) == [t |-> "bool", n |-> 0, s |-> "", b |-> b, a |-> <<>>]
Arr(a) == [t |-> "arr", n |-> 0, s |-> "", b |-> FALSE, a |-> a]
\* crypto.randomUUID() (or `${Date.now()}_${i}`) for the entry at index i
Fresh(i) == [t |-> "uuid", n |-> i, s |-> "", b |-> FALSE, a |-> <<>>]

\* JavaScript truthiness, as used by ||, ?: and !!
Truthy(x) ==
    CASE x.t \in {"undef", "null"} -> FALSE
      [] x.t = "num" -> x.n # 0
      [] x.t = "str" -> x.s # ""
      [] x.t = "bool" -> x.b
      [] OTHER -> TRUE

FieldNames == {"id", "game", "durationSec", "remainingSec", "status", "announceAt", "minutes", "pinned"}
NoFields == [f \in FieldNames |-> Undef]
\* An entry of the persisted list: an object with its fields, null, or a primitive
Obj(fields) == [t |-> "obj", f |-> fields]
NullEntry == [t |-> "null", f |-> NoFields]
NumEntry == [t |-> "num", f |-> NoFields]

\* t.<name>: undefined on a primitive or when the field is missing
Get(e, name) == e.f[name]

\* StatusOf trusting the persisted text
StatusOfAsPersisted(e) == Get(e, "status").s

\* t.status === 'RUNNING' || t.status === 'FINISHED' ? t.status : 'PAUSED'
StatusOf(e) ==
    IF Get(e, "status") \in {Str("RUNNING"), Str("FINISHED")}
    THEN Get(e, "status").s ELSE "PAUSED"

\* PinnedOf with a single negation
PinnedOfNegated(e) == ~Truthy(Get(e, "pinned"))

\* !!t.pinned
PinnedOf(e) == Truthy(Get(e, "pinned"))

\* The body of the map callback for an entry that is not null
NormalizeOne(e, i) ==
    LET id == IF Truthy(Get(e, "id")) THEN Get(e, "id") ELSE Fresh(i)
        durationSec ==
            IF Get(e, "durationSec").t = "num" THEN Get(e, "durationSec").n
            ELSE Max(MinLegacyDurationSec * MsPerSec,
                     IF Truthy(Get(e, "minutes"))
                     THEN Get(e, "minutes").n * MinuteSec * MsPerSec
                     ELSE FallbackDurationSec * MsPerSec)
        remainingSec ==
            Min(durationSec,
                IF Get(e, "remainingSec").t = "num" THEN Get(e, "remainingSec").n ELSE durationSec)
        status == StatusOf(e)
        announceAt ==
            IF Get(e, "announceAt").t = "arr" THEN Get(e, "announceAt").a ELSE DefaultAnnounceAt
    IN  [id |-> id,
         game |-> IF Truthy(Get(e, "game")) THEN Get(e, "game") ELSE Str("Untitled Game"),
         durationSec |-> durationSec,
         remainingSec |-> remainingSec,
         status |-> status,
         announceAt |-> announceAt,
         pinned |-> PinnedOf(e)]

\* What localStorage holds: nothing, the empty string, text that is not JSON, or JSON
\* text whose value is a list (items), null, a number (n), or an object
Stored(kind, t, n, items) == [kind |-> kind, t |-> t, n |-> n, items |-> items]
RawAbsent == Stored("absent", "null", 0, <<>>)

Returned(ts) == [done |-> TRUE, threw |-> FALSE, timers |-> ts]
Thrown == [done |-> TRUE, threw |-> TRUE, timers |-> <<>>]
NotLoaded == [done |-> FALSE, threw |-> FALSE, timers |-> <<>>]

\* The statements inside try: JSON.parse(raw), then (parsed || []).map(...)
TryBody(r) ==
    IF r.kind = "garbage" THEN Thrown                            \* JSON.parse throws
    ELSE IF r.t = "null" \/ (r.t = "num" /\ r.n = 0) THEN Returned(<<>>)   \* parsed || []
    ELSE IF r.t # "arr" THEN Thrown                              \* .map is not a function
    ELSE IF \E i \in 1..Len(r.items) : r.items[i].t = "null" THEN Thrown   \* t.id of null
    ELSE Returned([i \in 1..Len(r.items) |-> NormalizeOne(r.items[i], i - 1)])

\* The initialiser without its try/catch
LoadTimersNoCatch(r) ==
    IF r.kind \in {"absent", "empty"} THEN Returned(<<>>) ELSE TryBody(r)

LoadTimers(r) ==
    IF r.kind \in {"absent", "empty"} THEN Returned(<<>>)        \* if (!raw) return []
    ELSE IF TryBody(r).threw THEN Returned(<<>>)                 \* catch { return [] }
    ELSE TryBody(r)

\* No call of the formatter yet
NotFormatted == ""

\* overlay === null.  An overlay that is set is held as the kind of the notification
\* that set it and, as history, the time it was set
NoOverlay == [kind |-> "none", since |-> 0]

NoRequest == [op |-> "none", id |-> 0, patch |-> <<>>, before |-> <<>>]

\* The board before anything is added
BoardInit ==
    /\ timers = <<>>
    /\ view = [timers |-> <<>>, displayMode |-> FALSE]
    /\ phase = "idle"
    /\ displayMode = FALSE
    /\ lastSeen = <<>>
    /\ notes = <<>>
    /\ tickRateMs = DefaultTickRateMs
    /\ nextId = 1
    /\ tickedOut = {}
    /\ announced = {}
    /\ tickFrom = <<>>
    /\ held = {}
    /\ assets = {}
    /\ speechEnabled = TRUE
    /\ delivered = <<>>
    /\ language = "en"
    /\ queue = <<>>
    /\ speaking = FALSE
    /\ uttering = <<>>
    /\ request = NoRequest
    /\ totalSeconds = 0
    /\ formatted = NotFormatted
    /\ playback = <<>>
    /\ overlay = NoOverlay
    /\ timeouts = {}
    /\ now = 0

\* A restored timer seen as an entry again: the object the map callback returned,
\* read field by field as the callback reads its argument
AsEntry(tm) ==
    Obj([NoFields EXCEPT !.id = tm.id,
                         !.game = tm.game,
                         !.durationSec = Num(tm.durationSec),
                         !.remainingSec = Num(tm.remainingSec),
                         !.status = Str(tm.status),
                         !.announceAt = Arr(tm.announceAt),
                         !.pinned = Bool(tm.pinned)])
\* The load normalisation applied to a restored collection
Renormalize(ts) == LoadTimers(Stored("json", "arr", 0, [i \in 1..Len(ts) |-> AsEntry(ts[i])]))

\* The save effect: localStorage.setItem("tcg_timers", JSON.stringify(timers)).
\* An id is a UUID string; the model's id k stands for the k-th UUID handed out.
IdText(id) == ToString(id)
SaveOne(tm) ==
    Obj([NoFields EXCEPT !.id = Str(IdText(tm.id)),
                         !.game = Str(tm.game),
                         !.durationSec = Num(tm.durationSec),
                         !.remainingSec = Num(tm.remainingSec),
                         !.status = Str(tm.status),
                         !.announceAt = Arr(tm.announceAt),
                         !.pinned = Bool(tm.pinned)])
SaveTimers(ts) == Stored("json", "arr", 0, [i \in 1..Len(ts) |-> SaveOne(ts[i])])

Init ==
    /\ BoardInit
    /\ raw = RawAbsent
    /\ loaded = NotLoaded

\* setInterval callback of the ticking effect
Tick ==
    /\ phase = "idle"
    /\ timers' = TickMap(timers, tickRateMs)
    /\ phase' = "update"
    /\ notes' = <<>>
    /\ tickedOut' = tickedOut \cup
          {timers[i].id : i \in {j \in 1..Len(timers) :
                 timers[j].status = "RUNNING" /\ timers'[j].status = "FINISHED"}}
    /\ tickFrom' = timers
    /\ held' = StillOn(timers', held)
    /\ delivered' = <<>>
    /\ playback' = <<>>
    /\ UNCHANGED <<view, displayMode, lastSeen, tickRateMs, nextId, announced, loadVars,
                   configVars, speechVars, request, formatVars, overlayVars>>

\* React renders the queued tick
Render ==
    /\ phase = "update"
    /\ view' = [timers |-> timers, displayMode |-> displayMode]
    /\ phase' = "effect"
    /\ notes' = <<>>
    /\ delivered' = <<>>
    /\ playback' = <<>>
    /\ UNCHANGED <<timers, displayMode, lastSeen, tickRateMs, nextId, tickedOut, announced,
                   tickFrom, held, loadVars, configVars, speechVars, request, formatVars, overlayVars>>

\* The announcement effect of the rendered tick
Detect ==
    /\ phase = "effect"
    /\ LET p == DetectPass(view.timers, lastSeen)
       IN  /\ lastSeen' = p.ls
           /\ notes' = p.out
           /\ delivered' = DeliverPass(p.out, view.displayMode, assets, speechEnabled)
           /\ playback' \in PlaybackOutcomes(delivered')
           /\ announced' = announced \cup FinishedIds(p.out)
           /\ held' = StillOn(timers, held \cup Emitted(p.out))
    /\ phase' = "idle"
    /\ UNCHANGED <<timers, view, displayMode, tickRateMs, nextId, tickedOut, tickFrom, loadVars,
                   configVars, speechVars, request, formatVars, overlayVars>>

\* AdminPanel "+ Add Timer": addTimer({ game, icon, minutes })
AddTimer(minutes) ==
    /\ CardsShown
    /\ nextId <= MaxAdds
    /\ UNCHANGED configVars
    /\ Flush(Append(timers, NewTimer(nextId, minutes)), displayMode, lastSeen, {})
    /\ nextId' = nextId + 1
    /\ UNCHANGED <<tickRateMs, request>>

\* TimerCard "Start" / "Pause"
StartPause(i) ==
    /\ i \in 1..Len(view.timers)
    /\ Control(i, [status |-> IF view.timers[i].status = "RUNNING" THEN "PAUSED" ELSE "RUNNING"], {})

\* TimerCard "Reset"
Reset(i) ==
    /\ i \in 1..Len(view.timers)
    /\ Control(i, [remainingSec |-> view.timers[i].durationSec, status |-> "PAUSED"],
               {view.timers[i].id})

\* TimerCard "-1 min"
MinusMinute(i) ==
    /\ i \in 1..Len(view.timers)
    /\ Control(i, [remainingSec |-> Max(0, view.timers[i].remainingSec - MinuteSec * MsPerSec)], {})

\* TimerCard "+1 min"
PlusMinute(i) ==
    /\ i \in 1..Len(view.timers)
    /\ view.timers[i].remainingSec + MinuteSec * MsPerSec <= MaxRemainingSec * MsPerSec
    /\ Control(i, [remainingSec |-> view.timers[i].remainingSec + MinuteSec * MsPerSec], {})

\* TimerCard "Minutes" field
EditDuration(i, v) ==
    /\ i \in 1..Len(view.timers)
    /\ LET durationSec == ParseMinutes(v) * MinuteSec * MsPerSec
           remainingSec == Min(view.timers[i].remainingSec, durationSec)
       IN  Control(i, [durationSec |-> durationSec, remainingSec |-> remainingSec], {})

\* TimerCard "Announce at" field
EditThresholds(i, text) ==
    /\ i \in 1..Len(view.timers)
    /\ Control(i, [announceAt |-> ParseThresholds(text)], {})

\* TimerCard "Pin to Display" / "Pinned"
Pin(i) ==
    /\ i \in 1..Len(view.timers)
    /\ Control(i, [pinned |-> ~view.timers[i].pinned], {})

\* TimerCard "Remove": removeTimer(timer.id)
RemoveTimer(i) ==
    /\ CardsShown
    /\ i \in 1..Len(view.timers)
    /\ UNCHANGED configVars
    /\ LET id == view.timers[i].id
       IN  Flush(RemoveMap(timers, id), displayMode, Drop(lastSeen, id), {id})
    /\ UNCHANGED <<nextId, tickRateMs, request>>

\* "Display Mode" button (normal view), "Exit" button (display wall) and the Escape key
SetDisplayMode(on) ==
    /\ on # displayMode
    /\ on => CardsShown
    /\ UNCHANGED configVars
    /\ Flush(timers, on, lastSeen, {})
    /\ UNCHANGED <<nextId, tickRateMs, request>>

\* AdminPanel "Tick rate (ms)" field of the revision with a configurable tick rate
SetTickRate(v) ==
    /\ CardsShown
    /\ ParseTickRate(v) # tickRateMs
    /\ tickRateMs' = ParseTickRate(v)
    /\ UNCHANGED configVars
    /\ Flush(timers, displayMode, lastSeen, {})
    /\ UNCHANGED <<nextId, request>>

Slots == 1..MaxAdds

Next ==
    \/ Tick
    \/ Render
    \/ Detect
    \/ \E m \in AddMinutes : AddTimer(m)
    \/ \E i \in Slots : StartPause(i)
    \/ \E i \in Slots : Reset(i)
    \/ \E i \in Slots : MinusMinute(i)
    \/ \E i \in Slots : PlusMinute(i)
    \/ \E i \in Slots, v \in DurationInputs : EditDuration(i, v)
    \/ \E i \in Slots, text \in ThresholdTexts : EditThresholds(i, text)
    \/ \E i \in Slots : Pin(i)
    \/ \E i \in Slots : RemoveTimer(i)
    \/ \E on \in BOOLEAN : SetDisplayMode(on)

Spec == Init /\ [][Next]_vars

\* The board of the revision whose tick rate can be set: it has neither pinning
\* nor a display mode
NextRate ==
    \/ Tick
    \/ Render
    \/ Detect
    \/ \E m \in AddMinutes : AddTimer(m)
    \/ \E i \in Slots : StartPause(i)
    \/ \E i \in Slots : Reset(i)
    \/ \E i \in Slots : MinusMinute(i)
    \/ \E i \in Slots : PlusMinute(i)
    \/ \E i \in Slots, v \in DurationInputs : EditDuration(i, v)
    \/ \E i \in Slots, text \in ThresholdTexts : EditThresholds(i, text)
    \/ \E i \in Slots : RemoveTimer(i)
    \/ \E v \in TickRateInputs : SetTickRate(v)

SpecRate == Init /\ [][NextRate]_vars

\* A board started on a persisted collection and left alone: only the interval ticks.
\* The collections are ones an earlier session can have saved.
MaxLoaded == 2
PersistedTimer(id) ==
    {[id |-> id, game |-> "game", durationSec |-> MinuteSec * MsPerSec, remainingSec |-> r,
      status |-> st, announceAt |-> an, pinned |-> FALSE] :
        r \in {0, 1000, 2000}, st \in {"RUNNING", "PAUSED"}, an \in {DefaultAnnounceAt, <<0>>}}
    \cup
    {[id |-> id, game |-> "game", durationSec |-> MinuteSec * MsPerSec, remainingSec |-> r,
      status |-> "FINISHED", announceAt |-> an, pinned |-> FALSE] :
        r \in {0, MinuteSec * MsPerSec}, an \in {DefaultAnnounceAt, <<0>>}}
PersistedBoards ==
    UNION {{ts \in [1..n -> UNION {PersistedTimer(id) : id \in 1..n}] :
               \A i \in 1..n : ts[i].id = i} : n \in 1..MaxLoaded}

InitUnattended ==
    /\ timers \in PersistedBoards
    /\ view = [timers |-> timers, displayMode |-> FALSE]
    /\ phase = "effect"
    /\ displayMode = FALSE
    /\ lastSeen = <<>>
    /\ notes = <<>>
    /\ tickRateMs \in {DefaultTickRateMs, 500}
    /\ nextId = MaxLoaded + 1
    /\ tickedOut = {}
    /\ announced = {}
    /\ tickFrom = <<>>
    /\ held = {}
    /\ raw = RawAbsent
    /\ loaded = NotLoaded
    /\ assets = {}
    /\ speechEnabled = TRUE
    /\ delivered = <<>>
    /\ language = "en"
    /\ queue = <<>>
    /\ speaking = FALSE
    /\ uttering = <<>>
    /\ request = NoRequest
    /\ totalSeconds = 0
    /\ formatted = NotFormatted
    /\ playback = <<>>
    /\ overlay = NoOverlay
    /\ timeouts = {}
    /\ now = 0

NextUnattended == Tick \/ Render \/ Detect

SpecUnattended == InitUnattended /\ [][NextUnattended]_vars

\* setInterval keeps calling the ticking callback while the page is open, and React
\* renders every queued update and runs the effect of every render
SpecUnattendedFair ==
    SpecUnattended /\ WF_vars(Tick) /\ WF_vars(Render) /\ WF_vars(Detect)

----------------------------------------------------------------------------
\* Start-up on whatever localStorage holds
MaxStored == 2
IdValues == {Undef, Null, Str(""), Str("a")}
DurationValues == {Undef, Str("60"), Num(60000), Num(-5000)}
RemainingValues == {Undef, Null, Num(30000), Num(90000), Num(-5000)}
StatusValues == {Undef, Str("RUNNING"), Str("PAUSED"), Str("FINISHED"), Str("DONE")}
AnnounceValues == {Undef, Arr(<<60>>), Str("300")}
MinutesValues == {Undef, Num(0), Num(2)}     \* the legacy field, a number when present
PinnedValues == {Undef, Bool(TRUE)}
GameValues == {Undef, Str("Magic")}
StoredObjects ==
    {Obj([id |-> i, game |-> g, durationSec |-> d, remainingSec |-> r, status |-> st,
          announceAt |-> an, minutes |-> m, pinned |-> pn]) :
        i \in IdValues, g \in GameValues, d \in DurationValues, r \in RemainingValues,
        st \in StatusValues, an \in AnnounceValues, m \in MinutesValues, pn \in PinnedValues}
\* The entries lists longer than one are built from
SampleEntries ==
    {NullEntry, NumEntry, Obj(NoFields),
     Obj([NoFields EXCEPT !.id = Str("a"), !.durationSec = Num(60000),
                          !.remainingSec = Num(30000), !.status = Str("RUNNING"),
                          !.announceAt = Arr(<<60>>), !.game = Str("Magic")]),
     Obj([NoFields EXCEPT !.minutes = Num(2), !.status = Str("DONE")])}
RawInputs ==
    {RawAbsent, Stored("empty", "null", 0, <<>>), Stored("garbage", "null", 0, <<>>),
     Stored("json", "null", 0, <<>>), Stored("json", "num", 0, <<>>),
     Stored("json", "num", 5, <<>>), Stored("json", "obj", 0, <<>>),
     Stored("json", "arr", 0, <<>>)}
    \cup {Stored("json", "arr", 0, <<e>>) : e \in StoredObjects \cup SampleEntries}
    \cup UNION {{Stored("json", "arr", 0, es) : es \in [1..n -> SampleEntries]} : n \in 2..MaxStored}

InitLoad ==
    /\ BoardInit
    /\ raw \in RawInputs
    /\ loaded = NotLoaded

Load ==
    /\ ~loaded.done
    /\ loaded' = LoadTimers(raw)
    /\ UNCHANGED <<timers, view, phase, displayMode, lastSeen, notes, tickRateMs, nextId,
                   tickedOut, announced, tickFrom, held, raw, configVars, delivered, speechVars,
                   request, formatVars, playback, overlayVars>>

SpecLoad == InitLoad /\ [][Load]_vars

\* updateTimer and removeTimer called with any id, present or not, on a board started
\* on a persisted collection
StoreIds == 1..(MaxLoaded + 1)
Patches == {[status |-> "RUNNING"], [remainingSec |-> 0], [pinned |-> TRUE],
            [remainingSec |-> MinuteSec * MsPerSec, status |-> "PAUSED"]}

InitStore ==
    /\ timers \in PersistedBoards
    /\ view = [timers |-> timers, displayMode |-> FALSE]
    /\ phase = "effect"
    /\ displayMode = FALSE
    /\ lastSeen = <<>>
    /\ notes = <<>>
    /\ tickRateMs = DefaultTickRateMs
    /\ nextId = MaxLoaded + 1
    /\ tickedOut = {}
    /\ announced = {}
    /\ tickFrom = <<>>
    /\ held = {}
    /\ raw = RawAbsent
    /\ loaded = NotLoaded
    /\ assets = {}
    /\ speechEnabled = TRUE
    /\ delivered = <<>>
    /\ language = "en"
    /\ queue = <<>>
    /\ speaking = FALSE
    /\ uttering = <<>>
    /\ request = NoRequest
    /\ totalSeconds = 0
    /\ formatted = NotFormatted
    /\ playback = <<>>
    /\ overlay = NoOverlay
    /\ timeouts = {}
    /\ now = 0

UpdateTimer(id, patch) ==
    /\ request' = [op |-> "update", id |-> id, patch |-> patch, before |-> timers]
    /\ UNCHANGED configVars
    /\ Flush(UpdateMap(timers, id, patch), displayMode, lastSeen, {})
    /\ UNCHANGED <<nextId, tickRateMs>>

RemoveId(id) ==
    /\ request' = [op |-> "remove", id |-> id, patch |-> <<>>, before |-> timers]
    /\ UNCHANGED configVars
    /\ Flush(RemoveMap(timers, id), displayMode, Drop(lastSeen, id), {id})
    /\ UNCHANGED <<nextId, tickRateMs>>

NextStore ==
    \/ Detect
    \/ \E id \in StoreIds, patch \in Patches : UpdateTimer(id, patch)
    \/ \E id \in StoreIds : RemoveId(id)

SpecStore == InitStore /\ [][NextStore]_vars

\* The admin panel on a board started on a persisted collection: addTimer(preset),
\* where preset.minutes may be missing.  The persisted ids are not among the fresh ones.
DefaultMinutes == 50
PresetMinutes == {Undef, Num(1), Num(2)}
\* preset?.minutes ?? 50
MinutesOrDefault(x) == IF x.t \in {"undef", "null"} THEN DefaultMinutes ELSE x.n
AddBoards ==
    {[i \in DOMAIN b |-> [b[i] EXCEPT !.id = MaxAdds + i]] : b \in PersistedBoards}

InitAdd ==
    /\ timers \in AddBoards
    /\ view = [timers |-> timers, displayMode |-> FALSE]
    /\ phase = "effect"
    /\ displayMode = FALSE
    /\ lastSeen = <<>>
    /\ notes = <<>>
    /\ tickRateMs = DefaultTickRateMs
    /\ nextId = 1
    /\ tickedOut = {}
    /\ announced = {}
    /\ tickFrom = <<>>
    /\ held = {}
    /\ raw = RawAbsent
    /\ loaded = NotLoaded
    /\ assets = {}
    /\ speechEnabled = TRUE
    /\ delivered = <<>>
    /\ language = "en"
    /\ queue = <<>>
    /\ speaking = FALSE
    /\ uttering = <<>>
    /\ request = NoRequest
    /\ totalSeconds = 0
    /\ formatted = NotFormatted
    /\ playback = <<>>
    /\ overlay = NoOverlay
    /\ timeouts = {}
    /\ now = 0

AddPreset(x) == AddTimer(MinutesOrDefault(x))

NextAdd == Tick \/ Render \/ Detect \/ \E x \in PresetMinutes : AddPreset(x)

SpecAdd == InitAdd /\ [][NextAdd]_vars

\* The announcer on a board started on a persisted collection: the ticks, the display
\* wall, the voice checkbox and the clips of the admin panel
ClipKinds == {"five", "two", "time"}
LongGame == 3000 * MsPerSec
Persisted(id, st, rem, an) ==
    [id |-> id, game |-> "game", durationSec |-> LongGame, remainingSec |-> rem,
     status |-> st, announceAt |-> an, pinned |-> FALSE]
AnnounceBoards ==
    {<<Persisted(1, "RUNNING", 121 * MsPerSec, DefaultAnnounceAt)>>,
     <<Persisted(1, "RUNNING", 1 * MsPerSec, DefaultAnnounceAt)>>,
     <<Persisted(1, "RUNNING", 0, <<0>>)>>,
     <<Persisted(1, "PAUSED", 300 * MsPerSec, DefaultAnnounceAt),
       Persisted(2, "RUNNING", 2 * MsPerSec, DefaultAnnounceAt)>>}

InitAnnounce ==
    /\ timers \in AnnounceBoards
    /\ view = [timers |-> timers, displayMode |-> FALSE]
    /\ phase = "effect"
    /\ displayMode = FALSE
    /\ lastSeen = <<>>
    /\ notes = <<>>
    /\ tickRateMs = DefaultTickRateMs
    /\ nextId = MaxLoaded + 1
    /\ tickedOut = {}
    /\ announced = {}
    /\ tickFrom = <<>>
    /\ held = {}
    /\ raw = RawAbsent
    /\ loaded = NotLoaded
    /\ assets \in SUBSET ClipKinds
    /\ speechEnabled = TRUE
    /\ delivered = <<>>
    /\ language = "en"
    /\ queue = <<>>
    /\ speaking = FALSE
    /\ uttering = <<>>
    /\ request = NoRequest
    /\ totalSeconds = 0
    /\ formatted = NotFormatted
    /\ playback = <<>>
    /\ overlay = NoOverlay
    /\ timeouts = {}
    /\ now = 0

\* AdminPanel: a clip file chosen for a kind (audio.setFile)
SetClip(k) ==
    /\ CardsShown
    /\ k \notin assets
    /\ assets' = assets \cup {k}
    /\ UNCHANGED <<speechEnabled, language>>
    /\ Flush(timers, displayMode, lastSeen, {})
    /\ UNCHANGED <<nextId, tickRateMs, request>>

\* AdminPanel: "Clear" of a kind (audio.clear)
ClearClip(k) ==
    /\ CardsShown
    /\ k \in assets
    /\ assets' = assets \ {k}
    /\ UNCHANGED <<speechEnabled, language>>
    /\ Flush(timers, displayMode, lastSeen, {})
    /\ UNCHANGED <<nextId, tickRateMs, request>>

\* The "Voice" checkbox
ToggleSpeech ==
    /\ CardsShown
    /\ speechEnabled' = ~speechEnabled
    /\ UNCHANGED <<assets, language>>
    /\ Flush(timers, displayMode, lastSeen, {})
    /\ UNCHANGED <<nextId, tickRateMs, request>>

NextAnnounce ==
    \/ Tick
    \/ Render
    \/ Detect
    \/ \E on \in BOOLEAN : SetDisplayMode(on)
    \/ ToggleSpeech
    \/ \E k \in ClipKinds : SetClip(k)
    \/ \E k \in ClipKinds : ClearClip(k)

SpecAnnounce == InitAnnounce /\ [][NextAnnounce]_vars

\* The speech helper (useSpeech) with the controls that restart its dispatcher
MaxQueue == 3
Phrases == {"tiempo", "5 minutos"}
boardVars == <<timers, view, phase, displayMode, lastSeen, notes, tickRateMs, nextId,
               tickedOut, announced, tickFrom, held, loadVars, delivered, request,
               formatVars, playback, overlayVars>>

\* The function useSpeech returns, called by announce
Speak(text) ==
    /\ Len(queue) < MaxQueue
    /\ queue' = IF speechEnabled THEN Append(queue, text) ELSE queue
    /\ UNCHANGED <<boardVars, configVars, speaking, uttering>>

\* Dispatch without the test of the gate
DispatchUngated ==
    /\ speechEnabled
    /\ queue # <<>>
    /\ queue' = Tail(queue)
    /\ speaking' = TRUE
    /\ uttering' = Append(uttering, Head(queue))
    /\ UNCHANGED <<boardVars, configVars>>

\* The setInterval callback of the dispatcher, which exists while speech is enabled
Dispatch ==
    /\ speechEnabled
    /\ ~speaking
    /\ queue # <<>>
    /\ queue' = Tail(queue)
    /\ speaking' = TRUE
    /\ uttering' = Append(uttering, Head(queue))
    /\ UNCHANGED <<boardVars, configVars>>

\* The utterance being spoken ends: utter.onend
UtterEnd ==
    /\ uttering # <<>>
    /\ uttering' = Tail(uttering)
    /\ speaking' = FALSE
    /\ UNCHANGED <<boardVars, configVars, queue>>

\* The utterance fails or is cancelled: the synthesizer fires "error" and no "end",
\* and the utterance has no onerror handler
UtterError ==
    /\ uttering # <<>>
    /\ uttering' = Tail(uttering)
    /\ UNCHANGED <<boardVars, configVars, queue, speaking>>

\* AdminPanel language select
SetLanguage(l) ==
    /\ CardsShown
    /\ l # language
    /\ language' = l
    /\ UNCHANGED <<assets, speechEnabled>>
    /\ Flush(timers, displayMode, lastSeen, {})
    /\ UNCHANGED <<nextId, tickRateMs, request>>

NextSpeech ==
    \/ \E text \in Phrases : Speak(text)
    \/ Dispatch
    \/ UtterEnd
    \/ UtterError
    \/ ToggleSpeech
    \/ \E l \in {"en", "es"} : SetLanguage(l)

SpecSpeech == Init /\ [][NextSpeech]_vars

\* The dispatcher's interval keeps firing while speech is enabled, and the synthesizer
\* finishes every utterance it was handed, with "end" or with "error"
SpecSpeechFair ==
    SpecSpeech /\ WF_vars(Dispatch) /\ WF_vars(UtterEnd \/ UtterError)

----------------------------------------------------------------------------
(***************************************************************************)
(* The clock formatter.  Its argument is a number of seconds, held in      *)
(* milliseconds like every duration of the model, so that Math.floor has   *)
(* fractional arguments to act on.                                         *)
(***************************************************************************)

HourSec == 3600
MaxFormatSec == 61

\* String(n).padStart(2, "0"): zeros in front while the decimal text is shorter than two
pad(n) == IF Len(ToString(n)) < 2 THEN "0" \o ToString(n) ELSE ToString(n)

formatHHMMSSAlwaysHours(ms) ==
    LET s == Max(0, ms \div MsPerSec)
        h == s \div HourSec
        m == (s % HourSec) \div 60
        sec == s % 60
    IN  pad(h) \o ":" \o pad(m) \o ":" \o pad(sec)

formatHHMMSS(ms) ==
    LET s == Max(0, ms \div MsPerSec)          \* Math.max(0, Math.floor(totalSeconds))
        h == s \div HourSec
        m == (s % HourSec) \div 60
        sec == s % 60
    IN  IF h > 0 THEN pad(h) \o ":" \o pad(m) \o ":" \o pad(sec)
        ELSE pad(m) \o ":" \o pad(sec)

\* The arguments tried: around zero and the first minute, around one hour, ten hours
\* and a hundred hours, each as a whole number of seconds and half a second later
FormatSeconds ==
    (-5..MaxFormatSec) \cup {3599, 3600, 3661, 35999, 36000, 359999, 360000}

FormatInputs == {s * MsPerSec + f : s \in FormatSeconds, f \in {0, 500}}

InitFormat ==
    /\ timers = <<>>
    /\ view = [timers |-> <<>>, displayMode |-> FALSE]
    /\ phase = "idle"
    /\ displayMode = FALSE
    /\ lastSeen = <<>>
    /\ notes = <<>>
    /\ tickRateMs = DefaultTickRateMs
    /\ nextId = 1
    /\ tickedOut = {}
    /\ announced = {}
    /\ tickFrom = <<>>
    /\ held = {}
    /\ raw = RawAbsent
    /\ loaded = NotLoaded
    /\ assets = {}
    /\ speechEnabled = TRUE
    /\ delivered = <<>>
    /\ language = "en"
    /\ queue = <<>>
    /\ speaking = FALSE
    /\ uttering = <<>>
    /\ request = NoRequest
    /\ totalSeconds \in FormatInputs
    /\ formatted = NotFormatted
    /\ playback = <<>>
    /\ overlay = NoOverlay
    /\ timeouts = {}
    /\ now = 0

\* One call of formatHHMMSS
Format ==
    /\ formatted = NotFormatted
    /\ formatted' = formatHHMMSS(totalSeconds)
    /\ UNCHANGED <<timers, view, phase, displayMode, lastSeen, notes, tickRateMs, nextId,
                   tickedOut, announced, tickFrom, held, loadVars, configVars, delivered,
                   speechVars, request, totalSeconds, playback, overlayVars>>

SpecFormat == InitFormat /\ [][Format]_vars

----------------------------------------------------------------------------
\* A session started on a persisted collection out of boards: the first render is done
\* and its announcement effect is pending
SessionInit(boards) ==
    /\ timers \in boards
    /\ view = [timers |-> timers, displayMode |-> FALSE]
    /\ phase = "effect"
    /\ displayMode = FALSE
    /\ lastSeen = <<>>
    /\ notes = <<>>
    /\ tickRateMs = DefaultTickRateMs
    /\ nextId = MaxLoaded + 1
    /\ tickedOut = {}
    /\ announced = {}
    /\ tickFrom = <<>>
    /\ held = {}
    /\ raw = RawAbsent
    /\ loaded = NotLoaded
    /\ assets = {}
    /\ speechEnabled = TRUE
    /\ delivered = <<>>
    /\ language = "en"
    /\ queue = <<>>
    /\ speaking = FALSE
    /\ uttering = <<>>
    /\ request = NoRequest
    /\ totalSeconds = 0
    /\ formatted = NotFormatted
    /\ playback = <<>>
    /\ overlay = NoOverlay
    /\ timeouts = {}
    /\ now = 0

\* One long game around its 5-minute threshold, counting down or paused, with the
\* "-1 min" control
NudgeBoards ==
    {<<Persisted(1, st, rem * MsPerSec, DefaultAnnounceAt)>> :
        st \in {"RUNNING", "PAUSED"}, rem \in {330, 360}}

InitNudge == SessionInit(NudgeBoards)

NextNudge == Tick \/ Render \/ Detect \/ MinusMinute(1)

SpecNudge == InitNudge /\ [][NextNudge]_vars

----------------------------------------------------------------------------
(***************************************************************************)
(* The milestone overlay.  The announcement effect calls setOverlay(text)  *)
(* and setTimeout(() => setOverlay(null), delay) for a notification it     *)
(* delivers outside display mode; here those calls are the input, and the  *)
(* timeouts run when their delay has elapsed.                              *)
(***************************************************************************)
FinishedDismissMs == 5000
ThresholdDismissMs == 3500
MaxNowMs == 8000
AdvanceMs == {500, 1000}

DismissDelay(kind) == IF kind = "Finished" THEN FinishedDismissMs ELSE ThresholdDismissMs

\* setOverlay(...); setTimeout(() => setOverlay(null), delay)
ShowOverlay(kind) ==
    /\ now + DismissDelay(kind) <= MaxNowMs
    /\ overlay' = [kind |-> kind, since |-> now]
    /\ timeouts' = timeouts \cup {now + DismissDelay(kind)}
    /\ UNCHANGED <<timers, view, phase, displayMode, lastSeen, notes, tickRateMs, nextId,
                   tickedOut, announced, tickFrom, held, loadVars, configVars, delivered,
                   speechVars, request, formatVars, playback, now>>

\* Time passes, up to the next timeout that is due
Advance(d) ==
    /\ now + d <= MaxNowMs
    /\ \A due \in timeouts : due >= now + d
    /\ now' = now + d
    /\ UNCHANGED <<timers, view, phase, displayMode, lastSeen, notes, tickRateMs, nextId,
                   tickedOut, announced, tickFrom, held, loadVars, configVars, delivered,
                   speechVars, request, formatVars, playback, overlay, timeouts>>

\* A timeout callback: () => setOverlay(null)
Dismiss ==
    /\ \E due \in timeouts :
          /\ due <= now
          /\ timeouts' = timeouts \ {due}
    /\ overlay' = NoOverlay
    /\ UNCHANGED <<timers, view, phase, displayMode, lastSeen, notes, tickRateMs, nextId,
                   tickedOut, announced, tickFrom, held, loadVars, configVars, delivered,
                   speechVars, request, formatVars, playback, now>>

NextOverlay ==
    \/ \E kind \in {"Finished", "Threshold"} : ShowOverlay(kind)
    \/ \E d \in AdvanceMs : Advance(d)
    \/ Dismiss

SpecOverlay == Init /\ [][NextOverlay]_vars

----------------------------------------------------------------------------
\* The display wall's selection
DisplaySlots == 4

\* running, pinned, source and displayList of TimerBoard
displayList(ts, dm) ==
    LET running == SelectSeq(ts, LAMBDA t : t.status # "FINISHED")
        pinned == SelectSeq(ts, LAMBDA t : t.pinned /\ t.status # "FINISHED")
        source == IF Len(pinned) # 0 THEN pinned
                  ELSE IF Len(running) # 0 THEN running ELSE ts
    IN  IF dm THEN SubSeq(source, 1, Min(DisplaySlots, Len(source))) ELSE ts

\* Two restored games about to run out, with the pin control and the display mode
DisplayBoards ==
    {<<Persisted(1, st1, r1 * MsPerSec, DefaultAnnounceAt),
       Persisted(2, st2, r2 * MsPerSec, DefaultAnnounceAt)>> :
        st1 \in {"RUNNING", "PAUSED"}, st2 \in {"RUNNING", "PAUSED"},
        r1 \in {1, 2}, r2 \in {1, 2}}

InitDisplay == SessionInit(DisplayBoards)

NextDisplay ==
    \/ Tick
    \/ Render
    \/ Detect
    \/ \E i \in 1..MaxLoaded : Pin(i)
    \/ \E on \in BOOLEAN : SetDisplayMode(on)

SpecDisplay == InitDisplay /\ [][NextDisplay]_vars

\* The claims

\* C1: in every reachable state every timer has 0 <= remainingSec <= durationSec.
\* Fails: "+1 min" adds 60 seconds without clamping to durationSec.
C1_RemainingWithinDuration ==
    \A i \in 1..Len(timers) :
        /\ 0 <= timers[i].remainingSec
        /\ timers[i].remainingSec <= timers[i].durationSec

\* C2: no step takes a Finished timer to Running (an explicit reset leaves the timer
\* Paused, so a step from Finished straight to Running has no reset in between).
\* Fails: "Start" on a Finished timer sets status RUNNING.
C2_FinishedNeverRunsAgain ==
    [][\A i \in 1..Len(timers) : \A j \in 1..Len(timers') :
          (timers[i].status = "FINISHED" /\ timers'[j].id = timers[i].id)
              => timers'[j].status # "RUNNING"]_vars

\* C3: a Finished timer is one that a tick brought to zero while Running and that has
\* not been reset since, and it has remainingSec = 0 (the "only if" half of the claim and
\* the consequence it names).
\* Fails: "+1 min" on a Finished timer leaves it Finished with 60 seconds remaining.
C3_FinishedOnlyAtZero ==
    \A i \in 1..Len(timers) :
        timers[i].status = "FINISHED" =>
            /\ timers[i].id \in tickedOut
            /\ timers[i].remainingSec = 0

\* C4: every tick-driven transition to Finished gets exactly one Finished notification,
\* and a timer gets another one only after a reset and a new run to zero.
\* Fails: "Start" on a Finished timer (C2) lets it run to zero again without a reset.
FinishedCount(out, id) ==
    Cardinality({k \in 1..Len(out) : out[k].kind = "Finished" /\ out[k].id = id})
C4_OneFinishedNotePerTransition ==
    [][/\ \A k \in 1..Len(notes') :
             notes'[k].kind = "Finished" =>
                 /\ notes'[k].id \notin announced
                 /\ FinishedCount(notes', notes'[k].id) = 1
       /\ phase' = "idle" =>
             \A i \in 1..Len(timers') :
                 (timers'[i].status = "FINISHED" /\ timers'[i].id \in tickedOut')
                     => timers'[i].id \in announced']_vars

\* C5: a Running timer on whole second t + 1, with t among its thresholds, that a
\* 1-second tick takes to t gets exactly one Threshold(t) notification from the detector
\* pass of that tick, and the pass of a tick that leaves t emits no Threshold(t).
ThresholdCount(out, id, t) ==
    Cardinality({k \in 1..Len(out) :
                    out[k].kind = "Threshold" /\ out[k].id = id /\ out[k].at = t})
\* the detector pass of an uninterrupted 1-second tick has just run
AfterTickPass == phase = "idle" /\ tickFrom # <<>> /\ tickRateMs = DefaultTickRateMs
WholeSecondRunning(pre) ==
    pre.status = "RUNNING" /\ pre.remainingSec > 0 /\ pre.remainingSec % MsPerSec = 0
CountsDownThrough(pre, t) ==
    /\ (Includes(pre.announceAt, t) => ThresholdCount(notes, pre.id, t) = 1)
    /\ ThresholdCount(notes, pre.id, t + 1) = 0
\* C5 as claimed, for every threshold t >= 0.
\* Fails for t = 0: the tick that reaches 0 makes the timer Finished, and the detector
\* emits Finished and no Threshold(0).
C5_OneThresholdNotePerCrossing_Original ==
    AfterTickPass =>
        \A i \in 1..Len(tickFrom) :
            WholeSecondRunning(tickFrom[i]) =>
                CountsDownThrough(tickFrom[i], tickFrom[i].remainingSec \div MsPerSec - 1)
\* C5 as amended: for every threshold t > 0.
C5_OneThresholdNotePerCrossing ==
    AfterTickPass =>
        \A i \in 1..Len(tickFrom) :
            (WholeSecondRunning(tickFrom[i]) /\ tickFrom[i].remainingSec > MsPerSec) =>
                CountsDownThrough(tickFrom[i], tickFrom[i].remainingSec \div MsPerSec - 1)
C5_Witness ==
    /\ AfterTickPass
    /\ \E i \in 1..Len(tickFrom) :
          /\ WholeSecondRunning(tickFrom[i])
          /\ tickFrom[i].remainingSec > MsPerSec
          /\ Includes(tickFrom[i].announceAt, tickFrom[i].remainingSec \div MsPerSec - 1)
          /\ ThresholdCount(notes, tickFrom[i].id, tickFrom[i].remainingSec \div MsPerSec - 1) = 1

\* C6: a Threshold(t) notification is never emitted for a timer on the board while an earlier
\* Threshold(t) of that timer is still held, that is, while ceil(remainingSec) has
\* stayed on t since it was emitted.
\* Fails for t = 0: a Running timer at 0 gets Threshold(0), the tick makes it Finished
\* (lastSeen becomes the sentinel), and "Start" (C2) makes it Running at 0 again, which
\* emits Threshold(0) a second time.
C6_NoRefireOnThreshold ==
    [][\A k \in 1..Len(notes') :
          (/\ notes'[k].kind = "Threshold"
           /\ \E i \in 1..Len(timers') : timers'[i].id = notes'[k].id)
          => <<notes'[k].id, notes'[k].at>> \notin held]_vars

\* C7: a tick leaves every timer that is not Running identical; a Running timer gets
\* remainingSec = max(0, remainingSec - delta) and is Finished exactly when that is 0,
\* Running otherwise; nothing else, nor the size or order of the collection, changes.
\* (While a tick is queued, view still holds the collection the tick was applied to.)
TickedAsClaimed(a, b, deltaMs) ==
    IF a.status # "RUNNING" THEN b = a
    ELSE /\ b.remainingSec = (IF a.remainingSec - deltaMs > 0 THEN a.remainingSec - deltaMs ELSE 0)
         /\ b.status = (IF b.remainingSec = 0 THEN "FINISHED" ELSE "RUNNING")
         /\ b.id = a.id /\ b.game = a.game /\ b.durationSec = a.durationSec
         /\ b.announceAt = a.announceAt /\ b.pinned = a.pinned
C7_TickMapsEveryTimer ==
    phase = "update" =>
        /\ Len(timers) = Len(view.timers)
        /\ \A i \in 1..Len(timers) : TickedAsClaimed(view.timers[i], timers[i], tickRateMs)
C7_Witness ==
    /\ phase = "update"
    /\ Len(timers) = 2
    /\ \E i, j \in 1..Len(timers) :
          /\ view.timers[i].status = "RUNNING" /\ timers[i].status = "FINISHED"
          /\ view.timers[j].status = "PAUSED" /\ timers[j] = view.timers[j]

\* C8: after a load every timer of the collection has 0 <= remainingSec <= durationSec.
\* Fails: the initialiser only takes min(durationSec, remainingSec), so a persisted
\* negative remainingSec (or durationSec) is kept.
C8_LoadedWithinDuration ==
    loaded.done =>
        \A i \in 1..Len(loaded.timers) :
            /\ 0 <= loaded.timers[i].remainingSec
            /\ loaded.timers[i].remainingSec <= loaded.timers[i].durationSec

\* C9: load normalises every field of an entry on its own: a missing or invalid id is
\* replaced by a fresh one, a durationSec that is not a number by 3000, an unknown
\* status by Paused, an announceAt that is not a list by {300, 120}; a valid field is
\* kept as persisted.  The amended statement gives the one exception: when durationSec
\* is missing and the entry has the legacy field minutes (non-zero), durationSec
\* becomes max(60, minutes * 60).
ObjectList == raw.kind = "json" /\ raw.t = "arr" /\ \A i \in 1..Len(raw.items) : raw.items[i].t = "obj"
KnownStatus == {"RUNNING", "PAUSED", "FINISHED"}
FieldsButDuration(e, out, i) ==
    /\ IF e.f.id.t = "str" /\ e.f.id.s # "" THEN out.id = e.f.id
       ELSE out.id.t = "uuid" /\ \A j \in 1..Len(loaded.timers) : j # i => loaded.timers[j].id # out.id
    /\ IF e.f.status.t = "str" /\ e.f.status.s \in KnownStatus THEN out.status = e.f.status.s
       ELSE out.status = "PAUSED"
    /\ IF e.f.announceAt.t = "arr" THEN out.announceAt = e.f.announceAt.a
       ELSE out.announceAt = <<300, 120>>
    /\ (e.f.remainingSec.t = "num" /\ e.f.remainingSec.n <= out.durationSec)
          => out.remainingSec = e.f.remainingSec.n
    /\ (e.f.game.t = "str" /\ e.f.game.s # "") => out.game = e.f.game
    /\ e.f.pinned.t = "bool" => out.pinned = e.f.pinned.b
WellFormed(tm) ==
    /\ DOMAIN tm = {"id", "game", "durationSec", "remainingSec", "status", "announceAt", "pinned"}
    /\ tm.durationSec \in Int /\ tm.remainingSec \in Int
    /\ tm.status \in {"RUNNING", "PAUSED", "FINISHED"}
    /\ tm.pinned \in BOOLEAN
    /\ tm.id.t \in {"str", "uuid"}
C10_LoadNeverThrows ==
    loaded.done =>
        /\ ~loaded.threw
        /\ \A i \in 1..Len(loaded.timers) : WellFormed(loaded.timers[i])
C10_Witness ==
    /\ loaded.done /\ ~loaded.threw
    /\ raw.kind = "json" /\ raw.t = "arr" /\ Len(raw.items) = 2
    /\ raw.items[1].t = "obj" /\ raw.items[2].t = "null"
    /\ loaded.timers = <<>>

\* C11: saving the collection and loading it back gives the same ids, labels,
\* durations, remaining times, statuses and thresholds in the same order (the save
\* effect writes the rendered collection, which is the collection when nothing is queued).
\* Fails through C1: "+1 min" leaves remainingSec above durationSec and load clamps it.
C11_SaveLoadRoundTrip ==
    phase = "idle" =>
        LET back == LoadTimers(SaveTimers(timers)).timers
        IN  /\ Len(back) = Len(timers)
            /\ \A i \in 1..Len(timers) :
                  /\ back[i].id = Str(IdText(timers[i].id))
                  /\ back[i].game = Str(timers[i].game)
                  /\ back[i].durationSec = timers[i].durationSec
                  /\ back[i].remainingSec = timers[i].remainingSec
                  /\ back[i].status = timers[i].status
                  /\ back[i].announceAt = timers[i].announceAt

\* C12: the load normalisation is idempotent: applied to the collection a load
\* returned, it returns that collection again, same ids and same field values.
C12_NormalizationIdempotent ==
    loaded.done => Renormalize(loaded.timers) = Returned(loaded.timers)
C12_Witness ==
    /\ loaded.done
    /\ raw.kind = "json" /\ raw.t = "arr" /\ Len(raw.items) = 2
    /\ raw.items[1] = Obj(NoFields)
    /\ raw.items[2].f.minutes = Num(2) /\ raw.items[2].f.status = Str("DONE")
    /\ Len(loaded.timers) = 2
    /\ loaded.timers[1].id = Fresh(0) /\ loaded.timers[1].durationSec = 3000 * 1000
    /\ loaded.timers[2].status = "PAUSED" /\ loaded.timers[2].durationSec = 120 * 1000
    /\ Renormalize(loaded.timers).timers = loaded.timers

\* C13: at most one utterance is being spoken at any time: the dispatcher starts one
\* only when none it started is still unfinished, and the gate is closed while one is;
\* this holds across the speech checkbox and the language select.
C13_OneUtteranceAtATime ==
    /\ Len(uttering) <= 1
    /\ uttering # <<>> => speaking
C13_Witness ==
    /\ Len(uttering) = 1
    /\ Len(queue) = 2
    /\ language = "es"
    /\ ~speechEnabled

\* C14: for a Finished, 300 s or 120 s notification a configured clip of its kind is
\* played and no phrase is queued; with no clip configured exactly one phrase is
\* queued; a notification of any other threshold is always spoken.  The amended
\* statement adds the condition the code has: a phrase is queued only while speech is
\* enabled, and with speech disabled none is.
ClipConfigured(d) ==
    \/ d.note.kind = "Finished" /\ "time" \in d.ctx.assets
    \/ d.note.kind = "Threshold" /\ d.note.at = 300 /\ "five" \in d.ctx.assets
    \/ d.note.kind = "Threshold" /\ d.note.at = 120 /\ "two" \in d.ctx.assets
C14_ClipBeforeSpeech_Original ==
    \A k \in 1..Len(delivered) :
        IF ClipConfigured(delivered[k])
        THEN delivered[k].clip /\ delivered[k].phrases = <<>>
        ELSE ~delivered[k].clip /\ delivered[k].phrases = <<delivered[k].note>>
C14_ClipBeforeSpeech ==
    \A k \in 1..Len(delivered) :
        IF ClipConfigured(delivered[k])
        THEN delivered[k].clip /\ delivered[k].phrases = <<>>
        ELSE /\ ~delivered[k].clip
             /\ delivered[k].phrases =
                   IF delivered[k].ctx.enabled THEN <<delivered[k].note>> ELSE <<>>
C14_Witness ==
    \E k \in 1..Len(delivered) :
        /\ delivered[k].note.kind = "Threshold" /\ delivered[k].note.at = 120
        /\ delivered[k].ctx.assets = {"two"} /\ delivered[k].ctx.enabled
        /\ delivered[k].clip /\ delivered[k].phrases = <<>>

\* C15: a detector pass of a render in display mode sets no overlay, and a pass
\* outside display mode sets the overlay for every notification it emits.
C15_NoOverlayInDisplayMode ==
    \A k \in 1..Len(delivered) : delivered[k].overlay <=> ~delivered[k].ctx.dm
C15_Witness ==
    /\ displayMode
    /\ \E k \in 1..Len(delivered) :
          /\ delivered[k].note.kind = "Threshold"
          /\ delivered[k].ctx.dm /\ ~delivered[k].overlay

\* C16: once a timer is removed, lastSeen holds no entry for its id (the ids handed
\* out and no longer in the collection are the removed ones).
\* Fails: when the effect of the previous render is still pending at the click, it
\* runs after removeTimer deleted the entry and writes the entry again.
C16_RemovedIdsForgotten ==
    \A id \in 1..(nextId - 1) :
        (\A i \in 1..Len(timers) : timers[i].id # id) => id \notin DOMAIN lastSeen

\* C17: add appends exactly one timer at the end, with status Paused, remainingSec =
\* durationSec = minutes * 60 (50 minutes when none is given), thresholds {300, 120}
\* and pinned = false, and leaves the existing timers and their order unchanged.
AddedAsClaimed(tm, x) ==
    /\ tm.status = "PAUSED"
    /\ tm.durationSec = (IF x = Undef THEN 50 ELSE x.n) * 60 * 1000
    /\ tm.remainingSec = tm.durationSec
    /\ tm.announceAt = <<300, 120>>
    /\ tm.pinned = FALSE
Absent(ts, id) == \A i \in 1..Len(ts) : ts[i].id # id
Others(ts, id) == SelectSeq(ts, LAMBDA x : x.id # id)
C18_AbsentIdChangesNothing ==
    LET b == request.before
    IN  /\ request.op = "update" =>
              /\ Len(timers) = Len(b)
              /\ \A i \in 1..Len(b) :
                    IF b[i].id # request.id THEN timers[i] = b[i]
                    ELSE \A f \in DOMAIN b[i] :
                            timers[i][f] = IF f \in DOMAIN request.patch
                                           THEN request.patch[f] ELSE b[i][f]
              /\ Absent(b, request.id) => timers = b
        /\ request.op = "remove" =>
              /\ timers = Others(b, request.id)
              /\ Absent(timers, request.id)
              /\ Absent(b, request.id) => timers = b
              /\ Len(timers) >= Len(b) - 1
C18_Witness ==
    /\ request.op = "remove"
    /\ Len(request.before) = 1
    /\ request.id = 1
    /\ Absent(request.before, 1)
    /\ timers = request.before

\* C19: for every whole number of seconds s, negative ones included, the formatter returns
\* the clock fields of max(0, s), hours = s div 3600, minutes = (s mod 3600) div 60 and
\* seconds = s mod 60, as MM:SS when the hours are zero and HH:MM:SS otherwise, every
\* field zero-padded to two digits: 3661 gives 01:01:01, 59 gives 00:59, -5 gives 00:00
TwoDigits(n) == IF n < 10 THEN "0" \o ToString(n) ELSE ToString(n)

Clock(s) ==
    LET c == IF s < 0 THEN 0 ELSE s
        hours == c \div 3600
        minutes == (c % 3600) \div 60
        seconds == c % 60
    IN  IF hours = 0 THEN TwoDigits(minutes) \o ":" \o TwoDigits(seconds)
        ELSE TwoDigits(hours) \o ":" \o TwoDigits(minutes) \o ":" \o TwoDigits(seconds)

C19_FormatterClockFields ==
    (formatted # NotFormatted /\ totalSeconds % MsPerSec = 0) =>
        LET s == totalSeconds \div MsPerSec
        IN  /\ formatted = Clock(s)
            /\ s = 3661 => formatted = "01:01:01"
            /\ s = 59 => formatted = "00:59"
            /\ s = -5 => formatted = "00:00"

C19_Witness ==
    /\ totalSeconds = 3661 * MsPerSec
    /\ formatted = "01:01:01"

C19_WitnessNegative ==
    /\ totalSeconds = -5 * MsPerSec
    /\ formatted = "00:00"

\* C20: in every reachable state the ids in the collection are pairwise distinct, and no
\* operation (tick, update through any control, load normalization) changes the id of an
\* existing timer: here for the collection on the board, for the collection the load
\* initialiser returns, and for the id load normalization gives an entry that has one
PairwiseDistinct(ts) == \A i, j \in 1..Len(ts) : i # j => ts[i].id # ts[j].id

C20_IdsDistinctAndStable ==
    /\ PairwiseDistinct(timers)
    /\ (loaded.done /\ Len(loaded.timers) > 0) =>
          /\ PairwiseDistinct(loaded.timers)
          /\ \A i \in 1..Len(loaded.timers) :
                Get(raw.items[i], "id").t = "str" /\ Get(raw.items[i], "id").s # ""
                    => loaded.timers[i].id = Get(raw.items[i], "id")

\* C21: when the clip requested for a notification cannot be played, the notification
\* falls back to synthesized speech: every Finished, 5-minute or 2-minute notification
\* raised while speech is enabled results in a clip that actually plays or in a phrase in
\* the speech queue
C21_ClipFailureFallsBackToSpeech ==
    \A k \in 1..Len(delivered) :
        (delivered[k].ctx.enabled /\ ClipKind(delivered[k].note) # "none")
            => (playback[k] = "started" \/ delivered[k].phrases # <<>>)

\* C22: in a detector pass a Threshold(r) notification is emitted for a non-Finished timer
\* if and only if r = ceil(remainingSec) is one of its thresholds and differs from the
\* last-seen value of the timer; a change that jumps past a threshold without landing on
\* it emits nothing for that threshold; the last-seen value becomes r in every case
PassStep ==
    \/ phase = "effect" /\ phase' = "idle" /\ view' = view /\ tickFrom' = tickFrom
    \/ phase = "idle" /\ phase' = "idle"

C22_ThresholdOnExactMatch ==
    [][PassStep =>
        \A i \in 1..Len(view'.timers) :
            LET tm == view'.timers[i]
                r == Ceil(tm.remainingSec)
            IN  tm.status # "FINISHED" =>
                  /\ ThresholdCount(notes', tm.id, r) =
                        (IF Includes(tm.announceAt, r) /\ ~SeenIs(lastSeen, tm.id, r)
                         THEN 1 ELSE 0)
                  /\ \A k \in 1..Len(notes') :
                        (notes'[k].kind = "Threshold" /\ notes'[k].id = tm.id)
                            => notes'[k].at = r
                  /\ SeenIs(lastSeen', tm.id, r)]_vars

\* a paused game restored at 330 s has been nudged to 270 s, past its threshold of 300 s
C22_Witness ==
    /\ Len(timers) = 1
    /\ timers[1].status = "PAUSED"
    /\ timers[1].remainingSec = 270 * MsPerSec
    /\ Includes(timers[1].announceAt, 300)
    /\ phase = "idle"
    /\ notes = <<>>
    /\ SeenIs(lastSeen, 1, 270)

\* C23: an overlay set by a notification stays visible until its own dismissal delay has
\* elapsed (5 s for Finished, 3.5 s for Threshold) or a newer notification replaces it: a
\* dismiss callback scheduled for an earlier notification never clears the overlay of a
\* later one
C23_OverlayKeptForItsDelay ==
    [][(overlay # NoOverlay /\ overlay' = NoOverlay)
          => now >= overlay.since + DismissDelay(overlay.kind)]_vars

\* C24: a Running timer on whole second n > 0 is Running on n - 1 after a 1-second tick
\* when n > 1 and Finished at 0 when n = 1, nothing else changes it while it is left
\* alone, so it becomes Finished after exactly n ticks; under a fair tick every Running
\* timer left alone eventually reaches Finished, and a Finished timer stays Finished
TickStep == phase = "idle" /\ phase' = "update"
RunningAt(i) == i <= Len(timers) /\ timers[i].status = "RUNNING"
FinishedAt(i) == i <= Len(timers) /\ timers[i].status = "FINISHED"

CountsDownByOne ==
    /\ (TickStep /\ tickRateMs = DefaultTickRateMs) =>
          \A i \in 1..Len(timers) :
              WholeSecondRunning(timers[i]) =>
                  /\ timers'[i].remainingSec = timers[i].remainingSec - MsPerSec
                  /\ timers'[i].status =
                        (IF timers[i].remainingSec = MsPerSec THEN "FINISHED" ELSE "RUNNING")
    /\ ~TickStep => timers' = timers

C24_RunningReachesFinished ==
    /\ [][CountsDownByOne]_vars
    /\ \A i \in 1..MaxLoaded :
          /\ RunningAt(i) ~> FinishedAt(i)
          /\ [](FinishedAt(i) => []FinishedAt(i))

\* the second of two 1-second ticks has just brought a timer restored Running at 2 s to zero
C24_Witness ==
    /\ tickRateMs = DefaultTickRateMs
    /\ phase = "update"
    /\ \E i \in 1..Len(timers) :
          /\ WholeSecondRunning(tickFrom[i])
          /\ tickFrom[i].remainingSec = MsPerSec
          /\ timers[i].status = "FINISHED"
          /\ timers[i].remainingSec = 0
          /\ timers[i].id \in tickedOut
          /\ SeenIs(lastSeen, timers[i].id, 1)

\* C25: in display-wall mode every timer with pinned = true is part of the displayed
\* subset, whatever the statuses and the number of pinned timers
C25_PinnedAlwaysDisplayed ==
    (view.displayMode /\ Len(view.timers) > 0) =>
        \A i \in 1..Len(view.timers) :
            view.timers[i].pinned =>
                Includes(displayList(view.timers, view.displayMode), view.timers[i])

\* C26: a Threshold notification is emitted only as the result of a tick decrementing a
\* Running timer: a step that is a click on a control with no tick waiting for its
\* detector pass (adding, resetting, nudging, editing, pausing) emits no Threshold
ClickStep == phase = "idle" /\ phase' = "idle"

C26_ThresholdOnlyFromTick ==
    [][ClickStep => \A k \in 1..Len(notes') : notes'[k].kind # "Threshold"]_vars

\* C27: every Finished notification is preceded, in the current session, by a tick that
\* moved that timer from Running to Finished: starting the board with a timer persisted
\* as Finished emits no Finished notification for it
C27_FinishedNoteFollowsTick ==
    \A k \in 1..Len(notes) : notes[k].kind = "Finished" => notes[k].id \in tickedOut

\* C28: no tick is lost to a manual control: when a tick has been applied to a Running
\* timer after the view last rendered it and a control of a card is then used, the
\* resulting record holds what a control makes of the ticked record (its remainingSec
\* kept, nudged by a minute, clamped to the duration, or reset to it), and it is Finished
\* if the tick finished it and the control was not a reset
StaleClickStep == phase = "update" /\ phase' = "idle" /\ Len(timers') = Len(timers)

ReflectsTick(old, ticked, new) ==
    /\ new.remainingSec \in
          {ticked.remainingSec,
           Max(0, ticked.remainingSec - MinuteSec * MsPerSec),
           ticked.remainingSec + MinuteSec * MsPerSec,
           Min(ticked.remainingSec, new.durationSec),
           new.durationSec}
    /\ (ticked.status = "FINISHED" /\ new.remainingSec = ticked.remainingSec)
          => new.status = "FINISHED"

C28_NoTickLostToControl ==
    [][StaleClickStep =>
          \A i \in 1..Len(timers) :
              (tickFrom[i].status = "RUNNING" /\ timers'[i].id = timers[i].id)
                  => ReflectsTick(tickFrom[i], timers[i], timers'[i])]_vars

\* C29: the speech queue never stalls: while speech stays enabled every phrase placed in
\* the queue is eventually started, because the speaking gate set when an utterance
\* starts is always eventually released, also when the utterance ends in an error or is
\* cancelled
\* (for a waiting phrase to be started the gate must open; so, while speech stays
\* enabled, a closed gate leads to an open one, and a phrase is never left waiting
\* forever with no utterance in progress)
C29_SpeechQueueNeverStalls ==
    /\ speaking ~> (~speaking \/ ~speechEnabled)
    /\ (queue # <<>> /\ uttering = <<>>) ~> (uttering # <<>> \/ ~speechEnabled)

\* C30: a single malformed entry in the persisted list (a null entry, a value that is no
\* record) does not discard the other entries: every record persisted alongside it with
\* an id of its own is present in the loaded collection and in what the following save
\* writes back
SavedBack(ts) == [i \in 1..Len(ts) |-> AsEntry(ts[i])]

C30_MalformedEntryKeepsOthers ==
    (loaded.done /\ raw.kind = "json" /\ raw.t = "arr") =>
        \A i \in 1..Len(raw.items) :
            (raw.items[i].t = "obj" /\ Truthy(Get(raw.items[i], "id"))) =>
                /\ \E j \in 1..Len(loaded.timers) :
                      loaded.timers[j].id = Get(raw.items[i], "id")
                /\ \E j \in 1..Len(SavedBack(loaded.timers)) :
                      Get(SavedBack(loaded.timers)[j], "id") = Get(raw.items[i], "id")
====
